---------------------------- MODULE Spec2Model ----------------------------
(***************************************************************************)
(* Foam::KDTree (src/src/KDTree/KDTree.C): construction by in-place median *)
(* partitioning of a shared index array, and branch-and-bound nearest      *)
(* neighbour search.                                                       *)
(*                                                                         *)
(* Arrays of the code are 0-based; the model stores them as sequences and  *)
(* reads position i of the code at i + 1.  Scalars are modelled by         *)
(* integers: every value the code computes from integer inputs (a          *)
(* difference, a square, a sum of squares) is exact in both.               *)
(***************************************************************************)
EXTENDS Integers, Sequences, FiniteSets

(* ------------------------------ bounds --------------------------------- *)

\* Largest number of points handed to the constructor.
MaxN == 4

\* Largest leafSize_ (KDTree.H is not part of the sources; leafSize_ is a
\* positive count, drawn from 1..MaxLeafSize).
MaxLeafSize == 2

\* How far beyond the points' coordinate range a query coordinate may lie.
QMargin == 1

\* Vector lengths, and the grid the points lie on: three values a coordinate
\* in one dimension (keys below, at and above a pivot), two in two dimensions
\* (which keeps the number of point sets checkable).  Query coordinates reach
\* QMargin beyond the grid on both sides.
Dims == {0, 1, 2}
Coords(len) == IF len <= 1 THEN {0, 1, 2} ELSE {0, 1}
QCoords == (0 - QMargin)..(2 + QMargin)

\* GREAT is the library's finite "large" scalar (1e15 for double precision),
\* scaled here to the coordinate range: squared distances of 4 and more exist
\* within QCoords, as squared distances of 1e15 and more exist for scalars.
GREAT == 4

NULL == 0
\* What a call handed back: nothing, or the one value it returned.
NoResult == <<>>
Returned(v) == <<v>>

Vectors == UNION {[1..len -> Coords(len)] : len \in Dims}
PointSets == UNION {[1..n -> Vectors] : n \in 0..MaxN}
Queries == UNION {[1..len -> QCoords] : len \in Dims}

VARIABLES
    points_,    \* KDTree::points_
    k_,         \* KDTree::k_
    leafSize_,  \* KDTree::leafSize_
    root_,      \* KDTree::root_ (NULL: empty autoPtr)
    nodes,      \* the heap of Node objects; a Node* is a position in it
    indices,    \* the constructor's local index list, shared by all buildTree calls
    stack,      \* call stack of buildTree (with the partitionIndices locals)
    phase,      \* "new", "building", "ready", "aborted", "undefined"
    err,        \* the fatal error raised, or "none"
    errPos,     \* the position the constructor's error message names
    op,         \* the last operation called
    query,      \* the query vector of the last query call
    retNearest, \* Returned(what nearest(query) returned), or NoResult
    retDistSqr  \* Returned(what nearestDistSqr(query) returned), or NoResult

vars == <<points_, k_, leafSize_, root_, nodes, indices, stack, phase, err,
          errPos, op, query, retNearest, retDistSqr>>

buildVars == <<root_, nodes, indices, stack, phase>>
queryVars == <<query, retNearest, retDistSqr>>

(* --------------------------- small helpers ----------------------------- *)

\* points_[i][d]
coord(i, d) == points_[i + 1][d + 1]

\* std::swap(indices[a], indices[b])
swap(ind, a, b) == [ind EXCEPT ![a + 1] = ind[b + 1], ![b + 1] = ind[a + 1]]

\* Node(leafInds) and Node(pointIndex, axis)
LeafNode(leafInds) ==
    [leafIndices |-> leafInds, pointIndex |-> -1, axis |-> -1,
     left |-> NULL, right |-> NULL]

InternalNode(pointIndex, axis) ==
    [leafIndices |-> <<>>, pointIndex |-> pointIndex, axis |-> axis,
     left |-> NULL, right |-> NULL]

\* A fresh activation record of buildTree(indices, start, end, depth).
Frame(start, end, depth) ==
    [start |-> start, end |-> end, depth |-> depth, pc |-> "enter",
     axis |-> 0, midIndex |-> 0, left |-> 0, right |-> 0, node |-> NULL,
     entry |-> <<>>]

Top == stack[Len(stack)]
SetTop(f) == [stack EXCEPT ![Len(stack)] = f]
Pop == SubSeq(stack, 1, Len(stack) - 1)

(* ----------------------------- constructor ----------------------------- *)

\* Member initialisers: root_(), points_(points), k_(empty ? 0 : points[0].size())
Init ==
    /\ points_ \in PointSets
    /\ leafSize_ \in 1..MaxLeafSize
    /\ k_ = IF points_ = <<>> THEN 0 ELSE Len(points_[1])
    /\ root_ = NULL
    /\ nodes = <<>>
    /\ indices = <<>>
    /\ stack = <<>>
    /\ phase = "new"
    /\ err = "none"
    /\ errPos = -1
    /\ op = "none"
    /\ query = <<>>
    /\ retNearest = NoResult
    /\ retDistSqr = NoResult

\* forAll(points_, i) if (points_[i].size() != k_) FatalError: the position
\* at which the loop aborts, or -1 when it runs to the end.
RECURSIVE checkDimsFrom(_)
checkDimsFrom(i) ==
    IF i >= Len(points_) THEN -1
    ELSE IF Len(points_[i + 1]) # k_ THEN i
    ELSE checkDimsFrom(i + 1)

\* Mutant of checkDims: the loop runs to the end and reports the last
\* offending position.
checkDimsLast ==
    LET bad == {i \in 0..(Len(points_) - 1) : Len(points_[i + 1]) # k_}
    IN  IF bad = {} THEN -1
        ELSE CHOOSE i \in bad : \A j \in bad : j <= i

checkDims == checkDimsFrom(0)

\* The constructor body, up to the call of buildTree.
ConstructEmpty ==
    /\ phase = "new"
    /\ points_ = <<>>
    /\ phase' = "ready"
    /\ op' = "construct"
    /\ UNCHANGED <<points_, k_, leafSize_, root_, nodes, indices, stack, err,
                   errPos, query, retNearest, retDistSqr>>

ConstructAbort ==
    /\ phase = "new"
    /\ points_ # <<>>
    /\ checkDims # -1
    /\ phase' = "aborted"
    /\ err' = "DimensionMismatch"
    /\ errPos' = checkDims
    /\ op' = "construct"
    /\ UNCHANGED <<points_, k_, leafSize_, root_, nodes, indices, stack,
                   query, retNearest, retDistSqr>>

ConstructBuild ==
    /\ phase = "new"
    /\ points_ # <<>>
    /\ checkDims = -1
    /\ indices' = [i \in 1..Len(points_) |-> i - 1]
    /\ stack' = <<Frame(0, Len(points_), 0)>>
    /\ phase' = "building"
    /\ op' = "construct"
    /\ UNCHANGED <<points_, k_, leafSize_, root_, nodes, err, errPos,
                   query, retNearest, retDistSqr>>

(* ---------------------------- partitionIndices ------------------------- *)

\* for (i = left; i < right; ++i) if (points_[indices[i]][axis] < pivotVal)
\*     { swap(indices[i], indices[storeIdx]); storeIdx++; }
RECURSIVE partitionLoop(_, _, _, _, _, _)
partitionLoop(ind, i, right, storeIdx, axis, pivotVal) ==
    IF i >= right THEN [ind |-> ind, storeIdx |-> storeIdx]
    ELSE IF coord(ind[i + 1], axis) < pivotVal
         THEN partitionLoop(swap(ind, i, storeIdx), i + 1, right,
                            storeIdx + 1, axis, pivotVal)
         ELSE partitionLoop(ind, i + 1, right, storeIdx, axis, pivotVal)

\* Mutant of partitionPass: the pivot is never moved back from right to
\* storeIdx.
partitionPassPivotNotRestored(ind, left, right, axis) ==
    LET mid == (left + right) \div 2
        pivotVal == coord(ind[mid + 1], axis)
        parked == swap(ind, mid, right)
    IN  partitionLoop(parked, left, right, left, axis, pivotVal)

\* One pass of the outer while loop up to "Move pivot to its final place":
\* the pivot is the middle element, parked at right, then moved to storeIdx.
partitionPass(ind, left, right, axis) ==
    LET mid == (left + right) \div 2
        pivotVal == coord(ind[mid + 1], axis)
        parked == swap(ind, mid, right)
        looped == partitionLoop(parked, left, right, left, axis, pivotVal)
    IN  [ind |-> swap(looped.ind, looped.storeIdx, right),
         storeIdx |-> looped.storeIdx]

\* Mutant of narrow: the pivot position stays in the range.
narrowKeepsPivot(left, right, storeIdx, k) ==
    IF k < storeIdx
    THEN [left |-> left, right |-> storeIdx]
    ELSE [left |-> storeIdx, right |-> right]

\* The range the outer loop goes on with when storeIdx # k.
narrow(left, right, storeIdx, k) ==
    IF k < storeIdx
    THEN [left |-> left, right |-> storeIdx - 1]
    ELSE [left |-> storeIdx + 1, right |-> right]

\* while (left < right) { ... }: one iteration.
PartitionIter ==
    /\ phase = "building"
    /\ Top.pc = "partition"
    /\ Top.left < Top.right
    /\ LET pass == partitionPass(indices, Top.left, Top.right, Top.axis)
           nxt == narrow(Top.left, Top.right, pass.storeIdx, Top.midIndex)
       IN  /\ indices' = pass.ind
           /\ stack' = IF pass.storeIdx = Top.midIndex
                       THEN SetTop([Top EXCEPT !.pc = "node"])
                       ELSE SetTop([Top EXCEPT !.left = nxt.left,
                                               !.right = nxt.right])
    /\ UNCHANGED <<points_, k_, leafSize_, root_, nodes, phase, err, errPos,
                   op, query, retNearest, retDistSqr>>

\* The loop condition fails: partitionIndices returns.
PartitionExit ==
    /\ phase = "building"
    /\ Top.pc = "partition"
    /\ ~(Top.left < Top.right)
    /\ stack' = SetTop([Top EXCEPT !.pc = "node"])
    /\ UNCHANGED <<points_, k_, leafSize_, root_, nodes, indices, phase, err,
                   errPos, op, query, retNearest, retDistSqr>>

(* ------------------------------- buildTree ----------------------------- *)

\* indices[start .. start+count)
leafInds(start, count) == [i \in 1..count |-> indices[start + i]]

\* A buildTree call returns ret to its caller: the constructor stores it in
\* root_, a parent buildTree stores it in node->left and calls for the right
\* child, or stores it in node->right and is ready to return its node.
Deliver(rest, heap, ret) ==
    IF rest = <<>>
    THEN /\ root_' = ret
         /\ nodes' = heap
         /\ stack' = rest
         /\ phase' = "ready"
    ELSE LET parent == rest[Len(rest)]
         IN  /\ root_' = root_
             /\ phase' = phase
             /\ IF parent.pc = "left"
                THEN /\ nodes' = [heap EXCEPT ![parent.node].left = ret]
                     /\ stack' = Append(
                            [rest EXCEPT ![Len(rest)].pc = "right"],
                            Frame(parent.midIndex + 1, parent.end,
                                  parent.depth + 1))
                ELSE /\ nodes' = [heap EXCEPT ![parent.node].right = ret]
                     /\ stack' = [rest EXCEPT ![Len(rest)].pc = "return"]

\* if (count <= 0) return autoPtr<Node>();
BuildEmpty ==
    /\ phase = "building"
    /\ Top.pc = "enter"
    /\ Top.end - Top.start <= 0
    /\ Deliver(Pop, nodes, NULL)
    /\ UNCHANGED <<points_, k_, leafSize_, indices, err, errPos, op, query,
                   retNearest, retDistSqr>>

\* if (count <= leafSize_) return a leaf holding indices[start..end)
BuildLeaf ==
    /\ phase = "building"
    /\ Top.pc = "enter"
    /\ LET count == Top.end - Top.start
       IN  /\ count > 0
           /\ count <= leafSize_
           /\ Deliver(Pop, Append(nodes, LeafNode(leafInds(Top.start, count))),
                      Len(nodes) + 1)
    /\ UNCHANGED <<points_, k_, leafSize_, indices, err, errPos, op, query,
                   retNearest, retDistSqr>>

\* Mutant of axisOf: the axis does not cycle with the depth.
axisAlwaysFirst(depth) == 0

\* const label axis = depth % k_;
axisOf(depth) == depth % k_

\* axis = depth % k_; midIndex = start + count/2; call partitionIndices.
BuildSplit ==
    /\ phase = "building"
    /\ Top.pc = "enter"
    /\ Top.end - Top.start > leafSize_
    /\ k_ # 0
    /\ stack' = SetTop([Top EXCEPT
                           !.pc = "partition",
                           !.axis = axisOf(Top.depth),
                           !.midIndex = Top.start + (Top.end - Top.start) \div 2,
                           !.left = Top.start,
                           !.right = Top.end - 1,
                           !.entry = indices])
    /\ UNCHANGED <<points_, k_, leafSize_, root_, nodes, indices, phase, err,
                   errPos, op, query, retNearest, retDistSqr>>

\* depth % k_ with k_ = 0: the remainder of a division by zero is undefined.
\* The build either traps (SIGFPE) or goes on with an axis that no point of
\* length 0 has; both outcomes leave no usable index.
BuildAxisUndefined ==
    /\ phase = "building"
    /\ Top.pc = "enter"
    /\ Top.end - Top.start > leafSize_
    /\ k_ = 0
    /\ phase' = "undefined"
    /\ err' \in {"SIGFPE", "OutOfBoundsRead"}
    /\ UNCHANGED <<points_, k_, leafSize_, root_, nodes, indices, stack,
                   errPos, op, query, retNearest, retDistSqr>>

\* new Node(indices[midIndex], axis); node->left = buildTree(start, midIndex)
BuildNode ==
    /\ phase = "building"
    /\ Top.pc = "node"
    /\ nodes' = Append(nodes, InternalNode(indices[Top.midIndex + 1], Top.axis))
    /\ stack' = Append(
           SetTop([Top EXCEPT !.pc = "left", !.node = Len(nodes) + 1,
                              !.left = 0, !.right = 0, !.entry = <<>>]),
           Frame(Top.start, Top.midIndex, Top.depth + 1))
    /\ UNCHANGED <<points_, k_, leafSize_, root_, indices, phase, err, errPos,
                   op, query, retNearest, retDistSqr>>

\* return node;
BuildReturn ==
    /\ phase = "building"
    /\ Top.pc = "return"
    /\ Deliver(Pop, nodes, Top.node)
    /\ UNCHANGED <<points_, k_, leafSize_, indices, err, errPos, op, query,
                   retNearest, retDistSqr>>

(* -------------------------------- search ------------------------------- *)

\* sum over d in [0, k_) of (a[d] - b[d])^2
RECURSIVE distSqrFrom(_, _, _)
distSqrFrom(a, b, d) ==
    IF d >= k_ THEN 0
    ELSE (a[d + 1] - b[d + 1]) * (a[d + 1] - b[d + 1]) + distSqrFrom(a, b, d + 1)

distSqr(a, b) == distSqrFrom(a, b, 0)

\* if (d2 < bestDistSqr) { bestDistSqr = d2; bestIndex = idx; }
update(best, idx, q) ==
    LET d2 == distSqr(points_[idx + 1], q)
    IN  IF d2 < best.distSqr THEN [index |-> idx, distSqr |-> d2] ELSE best

\* forAll(node->leafIndices, i) ...
RECURSIVE leafScan(_, _, _, _)
leafScan(leaf, i, q, best) ==
    IF i >= Len(leaf) THEN best
    ELSE leafScan(leaf, i + 1, q, update(best, leaf[i + 1], q))

\* Search the far side only if the hypersphere intersects the plane.
searchFar(diff, best) == diff * diff < best.distSqr

\* nearestSearch(node, query, bestIndex, bestDistSqr): the two references
\* are the record best, returned updated.
RECURSIVE nearestSearch(_, _, _)
nearestSearch(node, q, best) ==
    IF node = NULL THEN best
    ELSE IF nodes[node].leafIndices # <<>>
    THEN leafScan(nodes[node].leafIndices, 0, q, best)
    ELSE LET idx == nodes[node].pointIndex
             atSplit == update(best, idx, q)
             ax == nodes[node].axis
             diff == q[ax + 1] - coord(idx, ax)
             nearBranch == IF diff < 0 THEN nodes[node].left
                           ELSE nodes[node].right
             farBranch == IF diff < 0 THEN nodes[node].right
                          ELSE nodes[node].left
             afterNear == IF nearBranch # NULL
                          THEN nearestSearch(nearBranch, q, atSplit)
                          ELSE atSplit
         IN  IF farBranch # NULL /\ searchFar(diff, afterNear)
             THEN nearestSearch(farBranch, q, afterNear)
             ELSE afterNear

\* label bestIndex = -1; scalar bestDistSqr = GREAT; nearestSearch(root_, ...)
search(q) == nearestSearch(root_, q, [index |-> -1, distSqr |-> GREAT])

\* Mutant of entry: the dimension is checked before the root.
entryDimensionFirst(q) ==
    IF Len(q) # k_ THEN "fatal"
    ELSE IF root_ = NULL THEN "sentinel"
    ELSE "search"

\* Mutant of entry: a query of the wrong length is answered by the sentinel.
entrySentinelOnMismatch(q) ==
    IF root_ = NULL \/ Len(q) # k_ THEN "sentinel"
    ELSE "search"

\* What a query entry point does before it searches: "sentinel" (no root),
\* "fatal" (query.size() != k_, FatalError), or "search".
entry(q) ==
    IF root_ = NULL THEN "sentinel"
    ELSE IF Len(q) # k_ THEN "fatal"
    ELSE "search"

\* abort(FatalError) in a query: the call returns nothing.
QueryAbort(name, q) ==
    /\ phase' = "aborted"
    /\ err' = "DimensionMismatch"
    /\ op' = name
    /\ query' = q
    /\ retNearest' = NoResult
    /\ retDistSqr' = NoResult

\* Both entry points are const: a call leaves the index as it found it, and
\* what a call returns depends on the index and its own argument alone.  The
\* first call after construction takes any query; the calls after it take the
\* same vector again (the two entry points on one query).
Asked == IF op = "construct" THEN Queries ELSE {query}

\* label KDTree::nearest(const scalarField& query) const
Nearest ==
    /\ phase = "ready"
    /\ \E q \in Asked :
          IF entry(q) = "fatal"
          THEN QueryAbort("nearest", q)
          ELSE /\ retNearest' = Returned(IF entry(q) = "sentinel" THEN -1
                                         ELSE search(q).index)
               /\ retDistSqr' = IF q = query THEN retDistSqr ELSE NoResult
               /\ query' = q
               /\ op' = "nearest"
               /\ UNCHANGED <<phase, err>>
    /\ UNCHANGED <<points_, k_, leafSize_, root_, nodes, indices, stack, errPos>>

\* scalar KDTree::nearestDistSqr(const scalarField& query) const
NearestDistSqr ==
    /\ phase = "ready"
    /\ \E q \in Asked :
          IF entry(q) = "fatal"
          THEN QueryAbort("nearestDistSqr", q)
          ELSE /\ retDistSqr' = Returned(IF entry(q) = "sentinel" THEN GREAT
                                         ELSE search(q).distSqr)
               /\ retNearest' = IF q = query THEN retNearest ELSE NoResult
               /\ query' = q
               /\ op' = "nearestDistSqr"
               /\ UNCHANGED <<phase, err>>
    /\ UNCHANGED <<points_, k_, leafSize_, root_, nodes, indices, stack, errPos>>

(* ---------------------------- specification ---------------------------- *)

Build ==
    \/ ConstructEmpty
    \/ ConstructAbort
    \/ ConstructBuild
    \/ BuildEmpty
    \/ BuildLeaf
    \/ BuildSplit
    \/ BuildAxisUndefined
    \/ PartitionIter
    \/ PartitionExit
    \/ BuildNode
    \/ BuildReturn

Next ==
    \/ Build
    \/ Nearest
    \/ NearestDistSqr

Spec == Init /\ [][Next]_vars

\* The constructor runs on one call stack without suspension points: a build
\* step that is enabled is taken.
FairSpec == Spec /\ WF_vars(Build)

(* ------------------------- vocabulary of the claims -------------------- *)

N == Len(points_)
Consistent == \A i \in 1..N : Len(points_[i]) = Len(points_[1])
IsQuery == op \in {"nearest", "nearestDistSqr"}

\* The squared Euclidean distance between point i and q, by definition.
RECURSIVE sumSquares(_, _, _)
sumSquares(p, q, ds) ==
    IF ds = {} THEN 0
    ELSE LET d == CHOOSE x \in ds : TRUE
         IN  (p[d] - q[d]) * (p[d] - q[d]) + sumSquares(p, q, ds \ {d})

trueDistSqr(i, q) == sumSquares(points_[i + 1], q, DOMAIN q)

\* The minimum over all points, by exhaustive scan.
minDistSqr(q) ==
    CHOOSE m \in {trueDistSqr(i, q) : i \in 0..(N - 1)} :
        \A i \in 0..(N - 1) : m <= trueDistSqr(i, q)

\* The points stored in the subtree of a node.
RECURSIVE subtree(_)
subtree(n) ==
    IF n = NULL THEN {}
    ELSE IF nodes[n].leafIndices # <<>>
    THEN {nodes[n].leafIndices[i] : i \in 1..Len(nodes[n].leafIndices)}
    ELSE {nodes[n].pointIndex} \cup subtree(nodes[n].left)
                               \cup subtree(nodes[n].right)

\* The subtree of node n, whose root is at depth d, is ordered as a KD-tree.
RECURSIVE kdOrdered(_, _)
kdOrdered(n, d) ==
    \/ n = NULL
    \/ nodes[n].leafIndices # <<>>
    \/ LET ax == nodes[n].axis
           split == coord(nodes[n].pointIndex, ax)
       IN  /\ k_ > 0
           /\ ax = d % k_
           /\ \A p \in subtree(nodes[n].left) : coord(p, ax) <= split
           /\ \A p \in subtree(nodes[n].right) : coord(p, ax) >= split
           /\ kdOrdered(nodes[n].left, d + 1)
           /\ kdOrdered(nodes[n].right, d + 1)

\* The internal nodes at depth d below node n (itself at depth 0).
RECURSIVE internalAt(_, _)
internalAt(n, d) ==
    IF n = NULL \/ nodes[n].leafIndices # <<>> THEN {}
    ELSE IF d = 0 THEN {n}
    ELSE internalAt(nodes[n].left, d - 1) \cup internalAt(nodes[n].right, d - 1)

\* The running partitionIndices call, if any.
InPartition == phase = "building" /\ Top.pc = "partition"
PartitionReturned == phase = "building" /\ Top.pc = "node"
key(ind, i) == coord(ind[i + 1], Top.axis)

(* -------------------------------- claims ------------------------------- *)

\* C1: for every non-empty, dimension-consistent point set and every query of
\* length k, nearestDistSqr(q) equals the minimum over all points of the
\* squared Euclidean distance to q.
C1_DistIsMinimum ==
    (phase = "ready" /\ N > 0 /\ retDistSqr # NoResult /\ Len(query) = k_)
        => retDistSqr[1] = minDistSqr(query)

\* What the search does compute: the minimum capped at the initial best
\* value, the pruning test never skipping a point closer than GREAT.
SearchIsCappedMinimum ==
    (phase = "ready" /\ N > 0 /\ retDistSqr # NoResult /\ Len(query) = k_)
        => retDistSqr[1] = IF minDistSqr(query) < GREAT
                           THEN minDistSqr(query)
                           ELSE GREAT

\* C2: the index returned by nearest(q) references a point whose squared
\* distance to q equals the value returned by nearestDistSqr(q), for every
\* index built from points and every query q of length k.
C2_IndexMatchesDistance ==
    (phase = "ready" /\ N > 0 /\ Len(query) = k_
        /\ retNearest # NoResult /\ retDistSqr # NoResult)
        => /\ retNearest[1] \in 0..(N - 1)
           /\ trueDistSqr(retNearest[1], query) = retDistSqr[1]

\* C3: on a non-empty, dimension-consistent point set and a query of length
\* k, nearest returns an index in [0, n), never -1, and nearestDistSqr never
\* returns the initial best value GREAT.
C3_NoSentinelWhenNonEmpty ==
    (phase = "ready" /\ N > 0 /\ Len(query) = k_ /\ IsQuery)
        => /\ retNearest # NoResult => retNearest[1] \in 0..(N - 1)
           /\ retDistSqr # NoResult => retDistSqr[1] # GREAT

\* C4: on an index built from the empty point sequence, nearest returns -1
\* and nearestDistSqr returns GREAT for a query of any length, with no error.
C4_EmptyIndexSentinels ==
    (points_ = <<>> /\ IsQuery)
        => /\ phase = "ready"
           /\ err = "none"
           /\ op = "nearest" => retNearest = Returned(-1)
           /\ op = "nearestDistSqr" => retDistSqr = Returned(GREAT)
           /\ retNearest \in {NoResult, Returned(-1)}
           /\ retDistSqr \in {NoResult, Returned(GREAT)}

C4_Witness ==
    /\ points_ = <<>>
    /\ Len(query) = 2
    /\ retNearest = Returned(-1)
    /\ retDistSqr = Returned(GREAT)

\* C5 as claimed: for every index, the empty one included (k = 0), a query
\* whose length differs from k fails with DimensionMismatch and produces no
\* result.
C5_MismatchAlwaysFails ==
    (IsQuery /\ Len(query) # k_)
        => /\ err = "DimensionMismatch"
           /\ retNearest = NoResult
           /\ retDistSqr = NoResult

\* C5 as amended: for every non-empty index and every query whose length
\* differs from k, both entry points fail with DimensionMismatch and produce
\* no result; a query fails so in no other case.
C5_MismatchFailsOnNonEmpty ==
    /\ (IsQuery /\ Len(query) # k_ /\ root_ # NULL)
           => /\ phase = "aborted"
              /\ err = "DimensionMismatch"
              /\ retNearest = NoResult
              /\ retDistSqr = NoResult
    /\ (IsQuery /\ err # "none") => (root_ # NULL /\ Len(query) # k_)

C5_Witness ==
    /\ op = "nearestDistSqr"
    /\ root_ # NULL
    /\ k_ = 2
    /\ Len(query) = 1
    /\ err = "DimensionMismatch"

\* The first position whose vector's length differs from the first vector's.
firstOffender ==
    CHOOSE i \in 0..(N - 1) :
        /\ Len(points_[i + 1]) # Len(points_[1])
        /\ \A j \in 0..(i - 1) : Len(points_[j + 1]) = Len(points_[1])

\* C6: construction from a point sequence with a vector whose length differs
\* from the first vector's fails with DimensionMismatch naming the first
\* offending position, before any node is built: no root, no partial tree.
C6_MismatchAbortsBeforeBuild ==
    (~Consistent /\ phase # "new")
        => /\ phase = "aborted"
           /\ op = "construct"
           /\ err = "DimensionMismatch"
           /\ errPos = firstOffender
           /\ root_ = NULL
           /\ nodes = <<>>
           /\ stack = <<>>
           /\ indices = <<>>

C6_Witness ==
    /\ phase = "aborted"
    /\ N = 4
    /\ errPos = 2
    /\ Len(points_[4]) # k_

\* Every iteration of the outer loop of partitionIndices either returns or
\* goes on with a strictly smaller range [left, right] inside the old one,
\* which still holds the target position.
C7_PartitionShrinks ==
    [][InPartition /\ Top.left < Top.right
        => /\ Len(stack') = Len(stack)
           /\ LET after == stack'[Len(stack)]
              IN  \/ after.pc = "node"
                  \/ /\ after.pc = "partition"
                     /\ after.right - after.left < Top.right - Top.left
                     /\ Top.left <= after.left
                     /\ after.right <= Top.right
                     /\ after.left <= after.midIndex
                     /\ after.midIndex <= after.right]_vars

\* The constructor leaves the phases "new" and "building".
C7_BuildEnds == <>(phase \notin {"new", "building"})

\* C7: construction terminates, duplicate keys and sets of identical points
\* included: every outer iteration of partitionIndices returns or strictly
\* shrinks the active range, and partitionIndices and buildTree complete.
C7_DuplicatesTerminate == C7_PartitionShrinks /\ C7_BuildEnds

\* A set of identical points, two outer iterations into a partition.
C7_Witness ==
    /\ InPartition
    /\ N = 4
    /\ \A i \in 1..N : points_[i] = points_[1]
    /\ Top.left >= Top.start + 2

\* C8: on well-formed input (vectors of one length k >= 0, queries of length
\* k) construction and both queries raise no error and every step is defined:
\* accesses in bounds, depth mod k defined.
C8_WellFormedIsTotal ==
    (Consistent /\ (IsQuery => Len(query) = k_))
        => /\ err = "none"
           /\ phase # "undefined"
           /\ InPartition =>
                  /\ 0 <= Top.left
                  /\ Top.right < Len(indices)
                  /\ Top.axis \in 0..(k_ - 1)

\* C9: when partitionIndices(indices, start, end, axis, k) returns,
\* indices[start..end) is a permutation of what it was at entry, positions
\* outside are unchanged, position k holds the rank-(k - start) order
\* statistic of the range, no position before k holds a larger key and no
\* position after k a smaller one.
C9_PartitionSelects ==
    PartitionReturned =>
        LET range == Top.start..(Top.end - 1)
            k == Top.midIndex
            before == Top.entry
        IN  /\ Top.start <= k /\ k < Top.end
            /\ \A i \in 0..(Len(indices) - 1) :
                   i \notin range => indices[i + 1] = before[i + 1]
            /\ {indices[i + 1] : i \in range} = {before[i + 1] : i \in range}
            /\ Cardinality({indices[i + 1] : i \in range}) = Top.end - Top.start
            /\ \A i \in range : i < k => key(indices, i) <= key(indices, k)
            /\ \A i \in range : i > k => key(indices, i) >= key(indices, k)
            /\ Cardinality({i \in range : key(before, i) < key(indices, k)})
                   <= k - Top.start
            /\ Cardinality({i \in range : key(before, i) <= key(indices, k)})
                   > k - Top.start

\* A partition that moved elements of a range with unequal keys.
C9_Witness ==
    /\ PartitionReturned
    /\ indices # Top.entry
    /\ Top.end - Top.start = 4
    /\ \E i \in Top.start..(Top.end - 1) : key(indices, i) < key(indices, Top.midIndex)
    /\ \E i \in Top.start..(Top.end - 1) : key(indices, i) > key(indices, Top.midIndex)

\* C10: in the finished tree every Internal node at depth d has axis
\* d mod k, every point of its left subtree has axis-value <= the split
\* point's, and every point of its right subtree has axis-value >= it.
C10_TreeOrdered ==
    (phase = "ready" /\ root_ # NULL) => kdOrdered(root_, 0)

\* A finished tree with an Internal node at depth 1, splitting on axis 1,
\* below a root with two children.
C10_Witness ==
    /\ phase = "ready"
    /\ root_ # NULL
    /\ nodes[root_].left # NULL
    /\ nodes[root_].right # NULL
    /\ \E n \in internalAt(root_, 1) : nodes[n].axis = 1 /\ nodes[n].left # NULL

=============================================================================
